---- MODULE Spec2Model ----
(***************************************************************************)
(* Red-sprite observation predictor (src/main.py).                          *)
(*                                                                          *)
(* Real numbers are fixed-point integers: a float x is the integer          *)
(* floor(x * FP).  Degrees, percentages, kilometres, scores, z and the      *)
(* probability all use this unit.  TLC integers are 32 bit, so every        *)
(* product below is arranged to stay under 2^31.                            *)
(***************************************************************************)
EXTENDS Integers, Sequences, FiniteSets, TLC

VARIABLES
    lat_entry, lon_entry, month_spin, hour_spin,          \* entry / spinbox texts
    storm_scale, cloud_scale, moon_scale, visibility_scale, \* tk.Scale values
    prob_var, hint_label, reason_box,                     \* result widgets
    marker, map_position,                                 \* map widget
    last,                                                 \* what the last handler did
    call, ret                                             \* one function application

vars == <<lat_entry, lon_entry, month_spin, hour_spin, storm_scale, cloud_scale,
          moon_scale, visibility_scale, prob_var, hint_label, reason_box,
          marker, map_position, last, call, ret>>

widgets == <<lat_entry, lon_entry, month_spin, hour_spin, storm_scale, cloud_scale,
             moon_scale, visibility_scale, prob_var, hint_label, reason_box,
             marker, map_position, last>>

\* one unit of the fixed-point representation: 1.0
FP == 100 * 100

Abs(x) == IF x < 0 THEN -x ELSE x

\* Python round(n / d) for d > 0: round half to even
RoundHalfEven(n, d) ==
    LET q == n \div d
        r == n % d
    IN  IF 2 * r < d THEN q
        ELSE IF 2 * r > d THEN q + 1
        ELSE IF q % 2 = 0 THEN q ELSE q + 1

(***************************************************************************)
(* clamp, trapezoid_score                                                   *)
(***************************************************************************)
clamp(value, min_value, max_value) ==
    IF value < min_value THEN min_value
    ELSE IF value > max_value THEN max_value
    ELSE value

\* a trapezoid whose rising ramp measures the distance from opt_low
trapezoid_score_swapped(value, low, opt_low, opt_high, high) ==
    IF value <= low \/ value >= high THEN 0
    ELSE IF opt_low <= value /\ value <= opt_high THEN FP
    ELSE IF value < opt_low
         THEN clamp(((opt_low - value) * FP) \div (opt_low - low), 0, FP)
         ELSE clamp(((high - value) * FP) \div (high - opt_high), 0, FP)

\* value and the envelope are in one common unit; the result is in FP units
trapezoid_score(value, low, opt_low, opt_high, high) ==
    IF value <= low \/ value >= high THEN 0
    ELSE IF opt_low <= value /\ value <= opt_high THEN FP
    ELSE IF value < opt_low
         THEN clamp(((value - low) * FP) \div (opt_low - low), 0, FP)
         ELSE clamp(((high - value) * FP) \div (high - opt_high), 0, FP)

(***************************************************************************)
(* math.exp on fixed-point numbers: exp(x) = exp(x/2)^2, the inner one by   *)
(* its Taylor series.  Accurate to about 1e-3 for the z the model reaches   *)
(* (-3 <= z <= 1.7).                                                        *)
(***************************************************************************)
RECURSIVE ExpSeries(_, _, _, _)
ExpSeries(y, k, term, acc) ==
    IF k > 12 THEN acc
    ELSE LET t == (term * y) \div (k * FP)
         IN  ExpSeries(y, k + 1, t, acc + t)

math_exp(x) ==
    LET e == ExpSeries(x \div 2, 1, FP, FP)
    IN  (e * e) \div FP

(***************************************************************************)
(* predict_red_sprite_probability                                           *)
(***************************************************************************)
\* an hour score whose night band stops at 1 o'clock
hour_score_short_night(hour) ==
    IF (21 <= hour /\ hour <= 23) \/ (0 <= hour /\ hour <= 1) THEN FP
    ELSE IF (18 <= hour /\ hour <= 20) \/ (3 <= hour /\ hour <= 5) THEN (6 * FP) \div 10
    ELSE FP \div 10

hour_score_of(hour) ==
    IF (21 <= hour /\ hour <= 23) \/ (0 <= hour /\ hour <= 2) THEN FP
    ELSE IF (18 <= hour /\ hour <= 20) \/ (3 <= hour /\ hour <= 5) THEN (6 * FP) \div 10
    ELSE FP \div 10

lat_reason(lat_score) ==
    IF lat_score >= (9 * FP) \div 10 THEN <<"lat_optimal">>
    ELSE IF lat_score >= (5 * FP) \div 10 THEN <<"lat_acceptable">>
    ELSE <<"lat_outside">>

month_reason(month_score) ==
    IF month_score >= (9 * FP) \div 10 THEN <<"month_warm">>
    ELSE IF month_score >= (4 * FP) \div 10 THEN <<"month_shoulder">>
    ELSE <<"month_cold">>

hour_reason(hour_score) ==
    IF hour_score = FP THEN <<"hour_night">>
    ELSE IF hour_score = (6 * FP) \div 10 THEN <<"hour_twilight">>
    ELSE <<"hour_daytime">>

storm_reason(storm_factor) ==
    IF storm_factor > (7 * FP) \div 10 THEN <<"storm_very_active">>
    ELSE IF storm_factor > (4 * FP) \div 10 THEN <<"storm_moderate">>
    ELSE <<"storm_weak">>

cloud_reason(cloud_clear) ==
    IF cloud_clear > (6 * FP) \div 10 THEN <<"cloud_few">>
    ELSE IF cloud_clear > (3 * FP) \div 10 THEN <<"cloud_some">>
    ELSE <<"cloud_many">>

moon_reason(moon_dark) ==
    IF moon_dark > (7 * FP) \div 10 THEN <<"moon_dark">>
    ELSE IF moon_dark > (3 * FP) \div 10 THEN <<"moon_moderate">>
    ELSE <<"moon_bright">>

\* a visibility reason that is only given when the visibility is good
visibility_reason_optional(visibility_factor) ==
    IF visibility_factor >= (5 * FP) \div 10 THEN <<"visibility_good">>
    ELSE <<>>

visibility_reason(visibility_factor) ==
    IF visibility_factor >= (5 * FP) \div 10 THEN <<"visibility_good">>
    ELSE <<"visibility_short">>

\* a hint whose thresholds are inclusive
hint_of_inclusive(probability) ==
    IF probability >= (7 * FP) \div 10 THEN "favorable"
    ELSE IF probability >= (4 * FP) \div 10 THEN "moderate"
    ELSE "weak"

hint_of(probability) ==
    IF probability > (7 * FP) \div 10 THEN "favorable"
    ELSE IF probability > (4 * FP) \div 10 THEN "moderate"
    ELSE "weak"

\* latitude, storm_activity, cloud_cover, moon_brightness and visibility_km are
\* fixed-point; month and hour are Python ints.  longitude is not used.
predict_red_sprite_probability(latitude, longitude, month, hour, storm_activity, cloud_cover, moon_brightness, visibility_km) ==
    LET lat_score == trapezoid_score(latitude, -10 * FP, 10 * FP, 45 * FP, 60 * FP)
        month_score == trapezoid_score(month * FP, (25 * FP) \div 10, 5 * FP,
                                       9 * FP, (115 * FP) \div 10)
        hour_score == hour_score_of(hour)
        storm_factor == clamp(storm_activity \div 10, 0, FP)
        cloud_clear == clamp(FP - (cloud_cover \div 100), 0, FP)
        moon_dark == clamp(FP - (moon_brightness \div 100), 0, FP)
        visibility_factor == clamp(visibility_km \div 40, 0, FP)
        \* z in tenths of a fixed-point unit, so that the weights are exact
        z10 == -30 * FP + 6 * lat_score + 5 * month_score + 4 * hour_score
               + 20 * storm_factor + 6 * visibility_factor + 4 * cloud_clear
               + 2 * moon_dark
        z == z10 \div 10
        \* 1 / (1 + exp(-z)), rounded to the nearest fixed-point number
        denom == FP + math_exp(-z)
        probability == (FP * FP + denom \div 2) \div denom
        reasons == lat_reason(lat_score) \o month_reason(month_score)
                   \o hour_reason(hour_score) \o storm_reason(storm_factor)
                   \o cloud_reason(cloud_clear) \o moon_reason(moon_dark)
                   \o visibility_reason(visibility_factor)
    \* the returned triple, and the scores it was computed from
    IN  [probability |-> probability, reasons |-> reasons,
         hint |-> hint_of(probability),
         lat_score |-> lat_score, month_score |-> month_score,
         hour_score |-> hour_score, storm_factor |-> storm_factor,
         cloud_clear |-> cloud_clear, moon_dark |-> moon_dark,
         visibility_factor |-> visibility_factor, z |-> z]

(***************************************************************************)
(* datetime.  A datetime is a record of its fields; tz is TRUE for an       *)
(* aware datetime (one with a UTC offset), offset is then its offset in     *)
(* minutes.  A timestamp string "YYYY-MM-DDTHH:MM[:SS][+HH:MM]" is the      *)
(* record of the fields it prints, suffix being the text after the seconds  *)
(* ("" or "+HH:00").                                                        *)
(***************************************************************************)
DateTime(y, mo, d, h, mi, s) ==
    [year |-> y, month |-> mo, day |-> d, hour |-> h, minute |-> mi,
     second |-> s, tz |-> FALSE, offset |-> 0]

Aware(dt, off) == [dt EXCEPT !.tz = TRUE, !.offset = off]

IsLeap(y) == (y % 4 = 0 /\ y % 100 # 0) \/ y % 400 = 0

DaysBeforeMonth(y, mo) ==
    LET cum == <<0, 31, 59, 90, 120, 151, 181, 212, 243, 273, 304, 334>>
    IN  cum[mo] + (IF mo > 2 /\ IsLeap(y) THEN 1 ELSE 0)

\* date.toordinal(): days since 0001-01-01, plus one
toordinal(dt) ==
    LET y1 == dt.year - 1
    IN  y1 * 365 + y1 \div 4 - y1 \div 100 + y1 \div 400
        + DaysBeforeMonth(dt.year, dt.month) + dt.day

\* seconds from the (naive) datetime b to the (naive) datetime a
SecondsBetween(a, b) ==
    (toordinal(a) - toordinal(b)) * 86400
    + (a.hour - b.hour) * 3600 + (a.minute - b.minute) * 60 + (a.second - b.second)

\* target_dt.strftime("%Y-%m-%dT%H:00"): the 16 characters date, hour and ":00"
strftime_hour_key(dt) ==
    [year |-> dt.year, month |-> dt.month, day |-> dt.day, hour |-> dt.hour]

\* datetime.strptime(target_key, "%Y-%m-%dT%H:00"): a naive datetime
strptime_hour_key(key) == DateTime(key.year, key.month, key.day, key.hour, 0, 0)

\* t.startswith(target_key): the first 16 characters of t are the key's
startswith(t, key) ==
    /\ t.year = key.year /\ t.month = key.month /\ t.day = key.day
    /\ t.hour = key.hour /\ t.minute = 0

TimeString(y, mo, d, h, mi, s, suffix) ==
    [year |-> y, month |-> mo, day |-> d, hour |-> h, minute |-> mi,
     second |-> s, suffix |-> suffix]

\* datetime.fromisoformat(t): naive without an offset, aware with one
fromisoformat(t) ==
    LET naive == DateTime(t.year, t.month, t.day, t.hour, t.minute, t.second)
    IN  IF t.suffix = "" THEN naive
        ELSE IF t.suffix = "+09:00" THEN Aware(naive, 540)
        ELSE Aware(naive, 0)

(***************************************************************************)
(* What a call does: it returns a value or raises an exception.             *)
(***************************************************************************)
Return(v) == [kind |-> "return", msg |-> "", value |-> v]
Raise(kind, msg) == [kind |-> kind, msg |-> msg, value |-> <<>>]

(***************************************************************************)
(* fetch_weather.  The response is what urlopen and json.loads give:        *)
(*   net    "ok", or the exception urlopen / json.loads raised              *)
(*   hourly whether the "hourly" key is there, and for each of its keys     *)
(*          "time", "cloudcover", "visibility" whether it is there and the  *)
(*          list it holds.                                                  *)
(***************************************************************************)
Field(seq) == [present |-> TRUE, val |-> seq]
NoField == [present |-> FALSE, val |-> <<>>]

\* the smallest index (from 0) of the series that satisfies P, or -1
RECURSIVE FirstPrefixMatch(_, _, _)
FirstPrefixMatch(times, target_key, i) ==
    IF i > Len(times) THEN -1
    ELSE IF startswith(times[i], target_key) THEN i - 1
    ELSE FirstPrefixMatch(times, target_key, i + 1)

\* deltas.index(min(deltas)): the first position (from 0) of the minimum
IndexOfMin(deltas) ==
    LET m == CHOOSE d \in {deltas[i] : i \in 1..Len(deltas)} :
                 \A j \in 1..Len(deltas) : d <= deltas[j]
    IN  (CHOOSE i \in 1..Len(deltas) :
             deltas[i] = m /\ \A j \in 1..(i - 1) : deltas[j] # m) - 1

\* a nearest_index without the prefix scan: always the nearest delta
nearest_index_no_prefix(times, target_key) ==
    LET target_no_tz == strptime_hour_key(target_key)
    IN  IF \E i \in 1..Len(times) : fromisoformat(times[i]).tz
        THEN Raise("TypeError", "offset-naive and offset-aware")
        ELSE IF times = <<>>
        THEN Raise("ValueError", "min() arg is an empty sequence")
        ELSE Return(IndexOfMin([i \in 1..Len(times) |->
                 Abs(SecondsBetween(fromisoformat(times[i]), target_no_tz))]))

nearest_index(times, target_key) ==
    LET hit == FirstPrefixMatch(times, target_key, 1)
        target_no_tz == strptime_hour_key(target_key)
    IN  IF hit >= 0 THEN Return(hit)
        \* an aware datetime minus the naive target raises
        ELSE IF \E i \in 1..Len(times) : fromisoformat(times[i]).tz
        THEN Raise("TypeError", "offset-naive and offset-aware")
        ELSE IF times = <<>>
        THEN Raise("ValueError", "min() arg is an empty sequence")
        ELSE Return(IndexOfMin([i \in 1..Len(times) |->
                 Abs(SecondsBetween(fromisoformat(times[i]), target_no_tz))]))

\* an extraction that reads the visibility without a bounds check failing
extract_unchecked(clouds, visibilities, idx) ==
    IF idx + 1 > Len(clouds)
    THEN Raise("RuntimeError", "extraction failed")
    ELSE IF idx + 1 > Len(visibilities)
    THEN Return(<<clamp(clouds[idx + 1] * FP, 0, 100 * FP), 0>>)
    ELSE Return(<<clamp(clouds[idx + 1] * FP, 0, 100 * FP),
                  clamp((visibilities[idx + 1] * FP) \div 1000, 0, 40 * FP)>>)

\* an extraction that does not clamp the visibility from below
extract_no_floor(clouds, visibilities, idx) ==
    IF idx + 1 > Len(clouds) \/ idx + 1 > Len(visibilities)
    THEN Raise("RuntimeError", "extraction failed")
    ELSE Return(<<clamp(clouds[idx + 1] * FP, 0, 100 * FP),
                  IF (visibilities[idx + 1] * FP) \div 1000 > 40 * FP
                  THEN 40 * FP ELSE (visibilities[idx + 1] * FP) \div 1000>>)

\* lines 434-439: the values at idx as floats, the visibility in km, clamped.
\* The elements of the lists are numbers, so float() does not fail.
extract(clouds, visibilities, idx) ==
    IF idx + 1 > Len(clouds) \/ idx + 1 > Len(visibilities)
    THEN Raise("RuntimeError", "extraction failed")
    ELSE Return(<<clamp(clouds[idx + 1] * FP, 0, 100 * FP),
                  clamp((visibilities[idx + 1] * FP) \div 1000, 0, 40 * FP)>>)

\* lines 408-422: the request, json.loads and the "hourly" block
parse_response(resp) ==
    IF resp.net = "URLError" THEN Raise("RuntimeError", "communication error")
    ELSE IF resp.net = "JSONDecodeError" THEN Raise("RuntimeError", "response not parsed")
    ELSE LET hourly == resp.hourly
             \* "not hourly": no "hourly" key, or an empty object
             falsy == \/ ~hourly.present
                      \/ (~hourly.time.present /\ ~hourly.cloudcover.present
                          /\ ~hourly.visibility.present)
         IN  IF falsy \/ ~hourly.time.present
             THEN Raise("RuntimeError", "hourly data not found")
             ELSE Return([times |-> hourly.time.val,
                          clouds |-> IF hourly.cloudcover.present
                                     THEN hourly.cloudcover.val ELSE <<>>,
                          visibilities |-> IF hourly.visibility.present
                                           THEN hourly.visibility.val ELSE <<>>])

fetch_weather(resp, target_dt) ==
    LET parsed == parse_response(resp)
    IN  IF parsed.kind # "return" THEN parsed
        ELSE LET idx == nearest_index(parsed.value.times, strftime_hour_key(target_dt))
             IN  IF idx.kind # "return" THEN idx
                 ELSE extract(parsed.value.clouds, parsed.value.visibilities, idx.value)

(***************************************************************************)
(* moon_illumination.  The Julian day is kept in hours (jd * 24, an         *)
(* integer); the synodic month in thousandths of an hour.                   *)
(***************************************************************************)
\* 29.53058867 days, in thousandths of an hour
synodic_month == 708734

\* variant: January and February stay months 1 and 2 of their own year
julian_day_x24_no_shift(dt) ==
    LET a == dt.year \div 100
        b == 2 - a + (a \div 4)
    IN  24 * ((1461 * (dt.year + 4716)) \div 4
              + (306001 * (dt.month + 1)) \div 10000
              + dt.day + b) + dt.hour - 36588

\* jd * 24 of line 142
julian_day_x24(dt) ==
    LET shifted == dt.month < 3
        year == IF shifted THEN dt.year - 1 ELSE dt.year
        month == IF shifted THEN dt.month + 12 ELSE dt.month
        a == year \div 100
        b == 2 - a + (a \div 4)
    IN  24 * ((1461 * (year + 4716)) \div 4 + (306001 * (month + 1)) \div 10000
              + dt.day + b) + dt.hour - 36588

\* (jd - 2451549.5) * 24
days_since_new_x24(dt) == julian_day_x24(dt) - 58837188

\* cos(x) for 0 <= x <= pi/2, by its Taylor series
RECURSIVE CosSeries(_, _, _, _)
CosSeries(x2, k, term, acc) ==
    IF k > 6 THEN acc
    ELSE LET t == -((term * x2) \div ((2 * k - 1) * (2 * k) * FP))
         IN  CosSeries(x2, k + 1, t, acc + t)

\* math.cos(theta) for 0 <= theta < 2 pi
math_cos(theta) ==
    LET pi == 31416
        folded == IF theta > pi THEN 2 * pi - theta ELSE theta
        x == IF 2 * folded > pi THEN pi - folded ELSE folded
        c == CosSeries((x * x) \div FP, 1, FP, FP)
    IN  IF 2 * folded > pi THEN -c ELSE c

moon_illumination(dt) ==
    LET rem == (days_since_new_x24(dt) * 1000) % synodic_month
        \* phase = rem / synodic_month to four decimals, by long division
        q1 == (rem * 1000) \div synodic_month
        r1 == (rem * 1000) % synodic_month
        phase == q1 * 10 + (r1 * 10) \div synodic_month
        illumination == (FP - math_cos((62832 * phase) \div FP)) \div 2
    IN  clamp(illumination, 0, FP)

(***************************************************************************)
(* SpriteApp.  An entry or spinbox holds a text: ok is whether float() /    *)
(* int() accepts it, num is the number it then gives (fixed-point for an    *)
(* entry, an integer for a spinbox).  Map coordinates are in 1e-5 degrees.  *)
(***************************************************************************)
Text(n) == [ok |-> TRUE, num |-> n]
BadText == [ok |-> FALSE, num |-> 0]

\* f"{x:.2f}" of a fixed-point x, read back as a fixed-point number
Format2(x) == RoundHalfEven(x, 100) * 100
\* f"{c:.4f}" of a coordinate in 1e-5 degrees, read back as a fixed-point number
Format4(c) == RoundHalfEven(c, 10)

\* tk.Scale.set(value): rounded to the resolution (halves away from zero
\* for the non-negative values set here), then kept within from_..to
scale_set(value, from_, to, resolution) ==
    LET rem == value % resolution
        base == value - rem
        rounded == IF 2 * rem >= resolution THEN base + resolution ELSE base
    IN  clamp(rounded, from_, to)

W == [lat_entry |-> lat_entry, lon_entry |-> lon_entry, month_spin |-> month_spin,
      hour_spin |-> hour_spin, storm_scale |-> storm_scale,
      cloud_scale |-> cloud_scale, moon_scale |-> moon_scale,
      visibility_scale |-> visibility_scale, prob_var |-> prob_var,
      hint_label |-> hint_label, reason_box |-> reason_box, marker |-> marker,
      map_position |-> map_position, last |-> last]

Apply(w) ==
    /\ lat_entry' = w.lat_entry /\ lon_entry' = w.lon_entry
    /\ month_spin' = w.month_spin /\ hour_spin' = w.hour_spin
    /\ storm_scale' = w.storm_scale /\ cloud_scale' = w.cloud_scale
    /\ moon_scale' = w.moon_scale /\ visibility_scale' = w.visibility_scale
    /\ prob_var' = w.prob_var /\ hint_label' = w.hint_label
    /\ reason_box' = w.reason_box /\ marker' = w.marker
    /\ map_position' = w.map_position /\ last' = w.last

NoFetch == [kind |-> "none", msg |-> "", value |-> <<>>]
Did(op, outcome, fetch) == [op |-> op, outcome |-> outcome, fetch |-> fetch]

\* lat and lon in 1e-5 degrees; the marker's text has two decimals
update_marker(w, lat, lon, move) ==
    [w EXCEPT !.map_position = IF move THEN <<lat, lon>> ELSE @,
              !.marker = [lat |-> lat, lon |-> lon,
                          text |-> <<RoundHalfEven(lat, 1000), RoundHalfEven(lon, 1000)>>]]

\* __init__ / _build_ui with datetime.now() = now
constructed(now) ==
    update_marker(
        [lat_entry |-> Text(Format2(35 * FP)), lon_entry |-> Text(Format2(138 * FP)),
         month_spin |-> Text(now.month), hour_spin |-> Text(now.hour),
         storm_scale |-> scale_set(6 * FP, 0, 10 * FP, FP \div 2),
         cloud_scale |-> scale_set(30 * FP, 0, 100 * FP, 5 * FP),
         moon_scale |-> scale_set(40 * FP, 0, 100 * FP, 5 * FP),
         visibility_scale |-> scale_set(20 * FP, 0, 40 * FP, FP),
         prob_var |-> 0, hint_label |-> "press predict",
         reason_box |-> [lat |-> 0, lon |-> 0, reasons |-> <<"waiting for input">>],
         marker |-> [lat |-> 0, lon |-> 0, text |-> <<0, 0>>],
         map_position |-> <<35 * FP * 10, 138 * FP * 10>>,
         last |-> Did("init", "ok", NoFetch)],
        35 * FP * 10, 138 * FP * 10, FALSE)

run_prediction(w) ==
    IF ~(w.lat_entry.ok /\ w.lon_entry.ok /\ w.month_spin.ok /\ w.hour_spin.ok)
    THEN [w EXCEPT !.last = Did("run_prediction", "input error", NoFetch)]
    ELSE LET lat == w.lat_entry.num
             lon == w.lon_entry.num
             r == predict_red_sprite_probability(lat, lon, w.month_spin.num,
                      w.hour_spin.num, w.storm_scale, w.cloud_scale, w.moon_scale,
                      w.visibility_scale)
             \* round(prob * 100)
             percent == RoundHalfEven(r.probability, 100)
             shown == [w EXCEPT !.prob_var = percent,
                                !.hint_label = r.hint,
                                !.reason_box = [lat |-> Format2(lat), lon |-> Format2(lon),
                                                reasons |-> r.reasons],
                                !.last = Did("run_prediction", "ok", NoFetch)]
         IN  update_marker(shown, lat * 10, lon * 10, FALSE)

move_map_to_entries(w, center_only) ==
    IF ~(w.lat_entry.ok /\ w.lon_entry.ok)
    THEN [w EXCEPT !.last = Did("move_map_to_entries", "input error", NoFetch)]
    ELSE LET lat == w.lat_entry.num * 10
             lon == w.lon_entry.num * 10
             moved == [w EXCEPT !.map_position = <<lat, lon>>,
                                !.last = Did("move_map_to_entries", "ok", NoFetch)]
         IN  IF center_only THEN moved ELSE update_marker(moved, lat, lon, FALSE)

load_demo(w) ==
    LET filled == [w EXCEPT !.lat_entry = Text((347 * FP) \div 10),
                            !.lon_entry = Text((1365 * FP) \div 10),
                            !.month_spin = Text(7),
                            !.hour_spin = Text(22),
                            !.storm_scale = scale_set((85 * FP) \div 10, 0, 10 * FP, FP \div 2),
                            !.cloud_scale = scale_set(20 * FP, 0, 100 * FP, 5 * FP),
                            !.moon_scale = scale_set(20 * FP, 0, 100 * FP, 5 * FP),
                            !.visibility_scale = scale_set(30 * FP, 0, 40 * FP, FP)]
    IN  run_prediction(move_map_to_entries(filled, TRUE))

on_map_click(w, coords) ==
    update_marker([w EXCEPT !.lat_entry = Text(Format4(coords[1])),
                            !.lon_entry = Text(Format4(coords[2])),
                            !.last = Did("on_map_click", "ok", NoFetch)],
                  coords[1], coords[2], FALSE)

\* an auto fetch that fills in defaults when the fetch fails
auto_fetch_conditions_defaulting(w, now, resp) ==
    IF ~(w.lat_entry.ok /\ w.lon_entry.ok /\ w.hour_spin.ok)
    THEN [w EXCEPT !.last = Did("auto_fetch_conditions", "input error", NoFetch)]
    ELSE IF w.hour_spin.num < 0 \/ w.hour_spin.num > 23
    THEN [w EXCEPT !.last = Did("auto_fetch_conditions", "uncaught ValueError", NoFetch)]
    ELSE LET target_dt == DateTime(now.year, now.month, now.day, w.hour_spin.num, 0, 0)
             fetched == fetch_weather(resp, target_dt)
             got == IF fetched.kind = "return" THEN fetched.value ELSE <<0, 0>>
             moon_pct == clamp(RoundHalfEven(moon_illumination(target_dt), 100), 0, 100)
             filled == [w EXCEPT
                 !.cloud_scale = scale_set(RoundHalfEven(got[1], FP) * FP, 0, 100 * FP, 5 * FP),
                 !.visibility_scale = scale_set(RoundHalfEven(got[2], FP) * FP, 0, 40 * FP, FP),
                 !.moon_scale = scale_set(moon_pct * FP, 0, 100 * FP, 5 * FP)]
         IN  [run_prediction(filled) EXCEPT
                 !.last = Did("auto_fetch_conditions",
                              IF fetched.kind = "return" THEN @.outcome ELSE "fetch failed",
                              fetched)]

auto_fetch_conditions(w, now, resp) ==
    IF ~(w.lat_entry.ok /\ w.lon_entry.ok /\ w.hour_spin.ok)
    THEN [w EXCEPT !.last = Did("auto_fetch_conditions", "input error", NoFetch)]
    \* replace(hour=hour) raises ValueError outside any try block
    ELSE IF w.hour_spin.num < 0 \/ w.hour_spin.num > 23
    THEN [w EXCEPT !.last = Did("auto_fetch_conditions", "uncaught ValueError", NoFetch)]
    ELSE LET target_dt == DateTime(now.year, now.month, now.day, w.hour_spin.num, 0, 0)
             fetched == fetch_weather(resp, target_dt)
         IN  IF fetched.kind # "return"
             THEN [w EXCEPT !.last = Did("auto_fetch_conditions", "fetch failed", fetched)]
             ELSE LET cloud == fetched.value[1]
                      visibility == fetched.value[2]
                      \* round(moon_illumination(target_dt) * 100), clamped
                      moon_pct == clamp(RoundHalfEven(moon_illumination(target_dt), 100),
                                        0, 100)
                      filled == [w EXCEPT
                          !.cloud_scale = scale_set(RoundHalfEven(cloud, FP) * FP,
                                                    0, 100 * FP, 5 * FP),
                          !.visibility_scale = scale_set(RoundHalfEven(visibility, FP) * FP,
                                                         0, 40 * FP, FP),
                          !.moon_scale = scale_set(moon_pct * FP, 0, 100 * FP, 5 * FP)]
                  IN  [run_prediction(filled) EXCEPT
                          !.last = Did("auto_fetch_conditions",
                                       IF @.outcome = "ok" THEN "ok"
                                       ELSE "fetched, prediction input error",
                                       fetched)]

(***************************************************************************)
(* The inputs the model draws from.                                         *)
(***************************************************************************)
\* longest "time" list, and longest value list, of an enumerated response
MaxTimes == 2
MaxVals == 3

BoundedSeq(S, n) == UNION {[1..k -> S] : k \in 0..n}

\* the hour asked for in the fetch_weather checks
TargetDt == DateTime(2024, 5, 1, 12, 0, 0)

TimeStrings ==
    { TimeString(2024, 5, 1, 12, 0, 0, ""),        \* 2024-05-01T12:00
      TimeString(2024, 5, 1, 12, 0, 40, ""),       \* 2024-05-01T12:00:40
      TimeString(2024, 5, 1, 11, 59, 50, ""),      \* 2024-05-01T11:59:50
      TimeString(2024, 5, 1, 11, 0, 0, ""),        \* 2024-05-01T11:00
      TimeString(2024, 5, 1, 13, 0, 0, ""),        \* 2024-05-01T13:00
      TimeString(2024, 4, 30, 12, 0, 0, ""),       \* 2024-04-30T12:00
      TimeString(2024, 5, 1, 11, 0, 0, "+09:00") } \* 2024-05-01T11:00+09:00

\* scenario 4 of the specification, and the same hours without the offset
Scenario4 ==
    << TimeString(2024, 5, 1, 10, 0, 0, "+09:00"),
       TimeString(2024, 5, 1, 11, 0, 0, "+09:00"),
       TimeString(2024, 5, 1, 13, 0, 0, "+09:00") >>

Scenario4Naive ==
    << TimeString(2024, 5, 1, 10, 0, 0, ""),
       TimeString(2024, 5, 1, 11, 0, 0, ""),
       TimeString(2024, 5, 1, 13, 0, 0, "") >>

TimeLists == BoundedSeq(TimeStrings, MaxTimes) \cup {Scenario4, Scenario4Naive}

\* value lists: a cycle of a value below the range, one inside and one above,
\* started at any of the three, of every length up to n
ValueLists(cycle, n) ==
    {[i \in 1..k |-> cycle[((i - 1 + r) % 3) + 1]] : k \in 0..n, r \in 0..2}

CloudLists(n) == ValueLists(<<-5, 50, 130>>, n)          \* percent
VisibilityLists(n) == ValueLists(<<-500, 24140, 50000>>, n)  \* metres

FieldsOf(lists) == {Field(l) : l \in lists} \cup {NoField}

ResponsesOf(timeLists, nVals) ==
    {[net |-> n, hourly |-> [present |-> FALSE, time |-> NoField,
                             cloudcover |-> NoField, visibility |-> NoField]] :
        n \in {"ok", "URLError", "JSONDecodeError"}}
    \cup
    {[net |-> "ok", hourly |-> [present |-> TRUE, time |-> t,
                                cloudcover |-> c, visibility |-> v]] :
        t \in FieldsOf(timeLists), c \in FieldsOf(CloudLists(nVals)),
        v \in FieldsOf(VisibilityLists(nVals))}

Responses == ResponsesOf(TimeLists, MaxVals)

\* the responses the application is run against: one of each outcome
AppResponses ==
    {r \in ResponsesOf({<<>>, <<TimeString(2024, 5, 1, 12, 0, 0, "")>>,
                         <<TimeString(2024, 5, 1, 11, 0, 0, "+09:00")>>}, 1) :
        /\ r.hourly.present => r.hourly.cloudcover.val \in {<<50>>, <<130>>}
        /\ r.hourly.visibility.val \in {<<>>, <<24140>>}}

\* datetime.now()
NowChoices == {DateTime(2024, 5, 1, 12, 34, 56), DateTime(2000, 1, 6, 0, 10, 0)}

\* where the user clicks the map, in 1e-5 degrees
ClickCoords == {<<5212345, 13912355>>}

\* what the user types or drags
LatTexts == {BadText}
MonthTexts == {BadText}
HourTexts == {BadText, Text(25)}

(***************************************************************************)
(* The application                                                          *)
(***************************************************************************)
Idle == [pc |-> "idle"]

\* the widgets as the constructor leaves them
Constructed(now) ==
    LET w == constructed(now)
    IN  /\ lat_entry = w.lat_entry /\ lon_entry = w.lon_entry
        /\ month_spin = w.month_spin /\ hour_spin = w.hour_spin
        /\ storm_scale = w.storm_scale /\ cloud_scale = w.cloud_scale
        /\ moon_scale = w.moon_scale /\ visibility_scale = w.visibility_scale
        /\ prob_var = w.prob_var /\ hint_label = w.hint_label
        /\ reason_box = w.reason_box /\ marker = w.marker
        /\ map_position = w.map_position /\ last = w.last

Init ==
    /\ \E now \in NowChoices : Constructed(now)
    /\ call = Idle
    /\ ret = NoFetch

TypeLatEntry == \E t \in LatTexts :
    /\ Apply([W EXCEPT !.lat_entry = t, !.last = Did("type", "ok", NoFetch)])
    /\ UNCHANGED <<call, ret>>

TypeMonthSpin == \E t \in MonthTexts :
    /\ Apply([W EXCEPT !.month_spin = t, !.last = Did("type", "ok", NoFetch)])
    /\ UNCHANGED <<call, ret>>

TypeHourSpin == \E t \in HourTexts :
    /\ Apply([W EXCEPT !.hour_spin = t, !.last = Did("type", "ok", NoFetch)])
    /\ UNCHANGED <<call, ret>>

LoadDemo ==
    /\ Apply(load_demo(W))
    /\ UNCHANGED <<call, ret>>

OnMapClick == \E coords \in ClickCoords :
    /\ Apply(on_map_click(W, coords))
    /\ UNCHANGED <<call, ret>>

MoveMapToEntries ==
    /\ Apply(move_map_to_entries(W, FALSE))
    /\ UNCHANGED <<call, ret>>

RunPrediction ==
    /\ Apply(run_prediction(W))
    /\ UNCHANGED <<call, ret>>

AutoFetchConditions == \E now \in NowChoices, resp \in AppResponses :
    /\ Apply(auto_fetch_conditions(W, now, resp))
    /\ UNCHANGED <<call, ret>>

Next ==
    \/ TypeLatEntry
    \/ TypeMonthSpin
    \/ TypeHourSpin
    \/ LoadDemo
    \/ OnMapClick
    \/ MoveMapToEntries
    \/ RunPrediction
    \/ AutoFetchConditions

Spec == Init /\ [][Next]_vars

(***************************************************************************)
(* fetch_weather applied to one response, a step at a time: the request     *)
(* and the hourly block, the index, the extraction.                         *)
(***************************************************************************)
WidgetsConstructed == Constructed(DateTime(2024, 5, 1, 12, 34, 56))

InitFetch ==
    /\ WidgetsConstructed
    /\ call \in {[pc |-> "request", resp |-> r, target_dt |-> TargetDt, idx |-> NoFetch] :
                     r \in Responses}
    /\ ret = NoFetch

FetchRequest ==
    /\ call.pc = "request"
    /\ LET parsed == parse_response(call.resp)
       IN  IF parsed.kind # "return"
           THEN call' = [call EXCEPT !.pc = "done"] /\ ret' = parsed
           ELSE call' = [call EXCEPT !.pc = "lookup"] /\ ret' = ret
    /\ UNCHANGED widgets

FetchLookup ==
    /\ call.pc = "lookup"
    /\ LET parsed == parse_response(call.resp).value
           idx == nearest_index(parsed.times, strftime_hour_key(call.target_dt))
       IN  IF idx.kind # "return"
           THEN call' = [call EXCEPT !.pc = "done", !.idx = idx] /\ ret' = idx
           ELSE call' = [call EXCEPT !.pc = "extract", !.idx = idx] /\ ret' = ret
    /\ UNCHANGED widgets

FetchExtract ==
    /\ call.pc = "extract"
    /\ LET parsed == parse_response(call.resp).value
       IN  ret' = extract(parsed.clouds, parsed.visibilities, call.idx.value)
    /\ call' = [call EXCEPT !.pc = "done"]
    /\ UNCHANGED widgets

NextFetch ==
    \/ FetchRequest
    \/ FetchLookup
    \/ FetchExtract

SpecFetch == InitFetch /\ [][NextFetch]_vars

\* the steps together are the function
FetchStepsAgree ==
    call.pc = "done" => ret = fetch_weather(call.resp, call.target_dt)

(***************************************************************************)
(* predict_red_sprite_probability applied to one set of inputs, inside and  *)
(* outside the documented domains.                                          *)
(***************************************************************************)
\* how far below 0 and above 23 the hours go
HourMargin == 2

Latitudes == {35 * FP, (555 * FP) \div 100, -(62 * FP) \div 10, (525 * FP) \div 10, 95 * FP}
Months == {1, 4, 7, 13}
Hours == (0 - HourMargin)..(23 + HourMargin)
StormActivities == {6 * FP, (85 * FP) \div 10, 12 * FP}
CloudCovers == {20 * FP, 30 * FP, 120 * FP}
MoonBrightnesses == {-10 * FP, 20 * FP, 40 * FP}
Visibilities == {2 * FP, 20 * FP, 50 * FP}

InitPredict ==
    /\ WidgetsConstructed
    /\ call \in {[pc |-> "call", latitude |-> la, longitude |-> 138 * FP, month |-> mo,
                  hour |-> h, storm_activity |-> st, cloud_cover |-> cl,
                  moon_brightness |-> mb, visibility_km |-> vi] :
                     la \in Latitudes, mo \in Months, h \in Hours,
                     st \in StormActivities, cl \in CloudCovers,
                     mb \in MoonBrightnesses, vi \in Visibilities}
    /\ ret = NoFetch

Predict ==
    /\ call.pc = "call"
    /\ ret' = predict_red_sprite_probability(call.latitude, call.longitude, call.month,
                  call.hour, call.storm_activity, call.cloud_cover,
                  call.moon_brightness, call.visibility_km)
    /\ call' = [call EXCEPT !.pc = "done"]
    /\ UNCHANGED widgets

NextPredict == Predict

SpecPredict == InitPredict /\ [][NextPredict]_vars

(***************************************************************************)
(* trapezoid_score applied to one value and one well-formed envelope.       *)
(***************************************************************************)
\* the axis the envelopes are drawn on is 0..MaxAxis
MaxAxis == 6

Envelopes ==
    {e \in [low : 0..MaxAxis, opt_low : 0..MaxAxis, opt_high : 0..MaxAxis,
            high : 0..MaxAxis] :
        e.low < e.opt_low /\ e.opt_low <= e.opt_high /\ e.opt_high < e.high}

AxisValues == (0 - 1)..(MaxAxis + 1)

InitTrapezoid ==
    /\ WidgetsConstructed
    /\ call \in {[pc |-> "call", value |-> v, env |-> e] :
                     v \in AxisValues, e \in Envelopes}
    /\ ret = NoFetch

TrapezoidScore ==
    /\ call.pc = "call"
    /\ ret' = Return(trapezoid_score(call.value, call.env.low, call.env.opt_low,
                                     call.env.opt_high, call.env.high))
    /\ call' = [call EXCEPT !.pc = "done"]
    /\ UNCHANGED widgets

NextTrapezoid == TrapezoidScore

SpecTrapezoid == InitTrapezoid /\ [][NextTrapezoid]_vars

(***************************************************************************)
(* moon_illumination applied to one calendar date and hour.  ret carries    *)
(* the returned illumination and the locals jd and days_since_new (both in  *)
(* hours).                                                                  *)
(***************************************************************************)
\* the years drawn are 2000 - YearSpan .. 2000 + YearSpan, and the century
\* years 1900 and 2100 (not leap) each with the year before it
YearSpan == 1

Years == ((2000 - YearSpan)..(2000 + YearSpan)) \cup {1899, 1900, 2099, 2100}

DaysInMonth(y, mo) ==
    IF mo = 2 THEN (IF IsLeap(y) THEN 29 ELSE 28)
    ELSE IF mo \in {4, 6, 9, 11} THEN 30 ELSE 31

\* every date of the Gregorian calendar in Years, at every hour of the day
CalendarHours ==
    {DateTime(x[1], x[2], x[3], x[4], 0, 0) :
        x \in {c \in Years \X (1..12) \X (1..31) \X (0..23) :
                  c[3] <= DaysInMonth(c[1], c[2])}}

InitMoon ==
    /\ WidgetsConstructed
    /\ call \in {[pc |-> "call", dt |-> dt] : dt \in CalendarHours}
    /\ ret = NoFetch

MoonIllumination ==
    /\ call.pc = "call"
    /\ ret' = [kind |-> "return", msg |-> "",
               value |-> moon_illumination(call.dt),
               jd_x24 |-> julian_day_x24(call.dt),
               days_since_new_x24 |-> days_since_new_x24(call.dt)]
    /\ call' = [call EXCEPT !.pc = "done"]
    /\ UNCHANGED widgets

NextMoon == MoonIllumination

SpecMoon == InitMoon /\ [][NextMoon]_vars

(***************************************************************************)
(* Properties                                                               *)
(***************************************************************************)
Min(a, b) == IF a < b THEN a ELSE b
Max(a, b) == IF a > b THEN a ELSE b

\* the lists fetch_weather works on in the call under way
CallTimes == parse_response(call.resp).value.times
CallClouds == parse_response(call.resp).value.clouds
CallVisibilities == parse_response(call.resp).value.visibilities
CallKey == strftime_hour_key(call.target_dt)
LookedUp == call.pc \in {"extract", "done"} /\ call.idx.kind # "none"

\* positions (from 1) of the timestamps that start with the hour key
PrefixMatches == {i \in 1..Len(CallTimes) : startswith(CallTimes[i], CallKey)}

\* seconds between the wall-clock time a timestamp prints and the target hour
WallDelta(t) ==
    Abs(SecondsBetween(DateTime(t.year, t.month, t.day, t.hour, t.minute, t.second),
                       strptime_hour_key(CallKey)))

C2_NearestDeltaFallback ==
    (LookedUp /\ CallTimes # <<>> /\ PrefixMatches = {}) =>
        /\ \E i \in 1..Len(CallTimes) :
              /\ \A j \in 1..Len(CallTimes) :
                    WallDelta(CallTimes[i]) <= WallDelta(CallTimes[j])
              /\ \A j \in 1..(i - 1) :
                    WallDelta(CallTimes[j]) # WallDelta(CallTimes[i])
              /\ call.idx.kind = "return" /\ call.idx.value = i - 1
        /\ (CallTimes = Scenario4 => (call.idx.kind = "return" /\ call.idx.value = 1))

\* What the fallback does hold: when no timestamp of a non-empty series
\* carries a UTC offset and none starts with the key, the first index of
\* minimal time difference is returned (index 1 for scenario 4 without its
\* offsets).
FallbackWithoutOffsets ==
    (/\ LookedUp /\ CallTimes # <<>> /\ PrefixMatches = {}
     /\ \A j \in 1..Len(CallTimes) : CallTimes[j].suffix = "")
    => /\ call.idx.kind = "return"
       /\ \A j \in 1..Len(CallTimes) :
             WallDelta(CallTimes[call.idx.value + 1]) <= WallDelta(CallTimes[j])
       /\ \A j \in 1..call.idx.value :
             WallDelta(CallTimes[j]) > WallDelta(CallTimes[call.idx.value + 1])
       /\ (CallTimes = Scenario4Naive => call.idx.value = 1)

\* C3 (as claimed): a response without hourly block, without time field or
\* with an empty time list ends in the "hourly data not found" RuntimeError.
C3_MalformedIsDataUnavailable ==
    (/\ call.pc = "done"
     /\ call.resp.net = "ok"
     /\ \/ ~call.resp.hourly.present
        \/ ~call.resp.hourly.time.present
        \/ call.resp.hourly.time.val = <<>>)
    => ret = Raise("RuntimeError", "hourly data not found")

C10_ReturnIsClamped ==
    (call.pc = "done" /\ ret.kind = "return") =>
        LET i == call.idx.value + 1
            cloud == ret.value[1]
            visibility_km == ret.value[2]
        IN  /\ Len(ret.value) = 2
            /\ 0 <= cloud /\ cloud <= 100 * FP
            /\ 0 <= visibility_km /\ visibility_km <= 40 * FP
            /\ cloud = Max(0, Min(100 * FP, CallClouds[i] * FP))
            /\ visibility_km = Max(0, Min(40 * FP, (CallVisibilities[i] * FP) \div 1000))

\* C10 witness: a return where the cloud cover was above 100 and the
\* visibility negative.
C10_Witness ==
    /\ call.pc = "done" /\ ret.kind = "return"
    /\ CallClouds[call.idx.value + 1] > 100
    /\ CallVisibilities[call.idx.value + 1] < 0
    /\ ret.value = <<100 * FP, 0>>

\* C5: a step of auto_fetch_conditions whose fetch failed leaves the cloud,
\* visibility and moon inputs and the prediction shown as they were; a step
\* of auto_fetch_conditions that changes any of them had a fetch that
\* returned both values.
C5_FailedFetchChangesNothing ==
    [][ /\ (last'.op = "auto_fetch_conditions" /\ last'.fetch.kind # "return")
           => UNCHANGED <<cloud_scale, visibility_scale, moon_scale,
                          prob_var, hint_label, reason_box>>
        /\ (/\ last'.op = "auto_fetch_conditions"
            /\ <<cloud_scale, visibility_scale, moon_scale,
                 prob_var, hint_label, reason_box>>'
               # <<cloud_scale, visibility_scale, moon_scale,
                   prob_var, hint_label, reason_box>>)
           => (last'.fetch.kind = "return" /\ Len(last'.fetch.value) = 2)
      ]_vars

\* C5 witness: after the demo values were loaded and predicted, an auto fetch
\* failed with "extraction failed" and the demo inputs and prediction stand.
C5_Witness ==
    /\ last.op = "auto_fetch_conditions"
    /\ last.outcome = "fetch failed"
    /\ last.fetch = Raise("RuntimeError", "extraction failed")
    /\ cloud_scale = 20 * FP /\ visibility_scale = 30 * FP /\ moon_scale = 20 * FP
    /\ hint_label = "favorable"

\* C6: for a well-formed envelope trapezoid_score is 0 at and outside low and
\* high, 1 on the plateau, within [0, 1] everywhere, non-decreasing on the
\* rising ramp and non-increasing on the falling ramp.
C6_TrapezoidShape ==
    call.pc = "done" =>
        LET v == call.value
            e == call.env
            score(x) == trapezoid_score(x, e.low, e.opt_low, e.opt_high, e.high)
        IN  /\ (v <= e.low \/ v >= e.high) => ret.value = 0
            /\ (e.opt_low <= v /\ v <= e.opt_high) => ret.value = FP
            /\ 0 <= ret.value /\ ret.value <= FP
            /\ \A x \in AxisValues :
                  (e.low < v /\ v < x /\ x < e.opt_low) => ret.value <= score(x)
            /\ \A x \in AxisValues :
                  (e.opt_high < v /\ v < x /\ x < e.high) => ret.value >= score(x)

\* C6 witness: a value on a rising ramp that has a second point above it,
\* with a score strictly between 0 and 1.
C6_Witness ==
    /\ call.pc = "done"
    /\ call.env.low < call.value /\ call.value + 1 < call.env.opt_low
    /\ 0 < ret.value /\ ret.value < FP

CannedReasons ==
    << {"lat_optimal", "lat_acceptable", "lat_outside"},
       {"month_warm", "month_shoulder", "month_cold"},
       {"hour_night", "hour_twilight", "hour_daytime"},
       {"storm_very_active", "storm_moderate", "storm_weak"},
       {"cloud_few", "cloud_some", "cloud_many"},
       {"moon_dark", "moon_moderate", "moon_bright"},
       {"visibility_good", "visibility_short"} >>

\* C8: for every input the reasons list has exactly 7 entries and entry i is
\* one of the canned strings of factor i.
C8_SevenReasonsInOrder ==
    call.pc = "done" =>
        /\ Len(ret.reasons) = 7
        /\ \A i \in 1..7 : ret.reasons[i] \in CannedReasons[i]

\* C8 witness: inputs outside the documented domains (latitude above 90,
\* month 13, hour above 23, storm above 10, cloud above 100, moon below 0,
\* visibility above 40) with the seven lowest-tier or clamped reasons.
C8_Witness ==
    /\ call.pc = "done"
    /\ call.latitude > 90 * FP /\ call.month = 13 /\ call.hour > 23
    /\ call.storm_activity > 10 * FP /\ call.cloud_cover > 100 * FP
    /\ call.moon_brightness < 0 /\ call.visibility_km > 40 * FP
    /\ ret.reasons = <<"lat_outside", "month_cold", "hour_daytime",
                       "storm_very_active", "cloud_many", "moon_dark",
                       "visibility_good">>

\* C9: the hour score is 1.0 for the hours 21..23 and 0..2, 0.6 for 18..20
\* and 3..5, and 0.1 for every other hour, those outside 0..23 included,
\* which get the "daytime" reason.
C9_HourScore ==
    call.pc = "done" =>
        /\ call.hour \in {21, 22, 23, 0, 1, 2} => ret.hour_score = FP
        /\ call.hour \in {18, 19, 20, 3, 4, 5} => ret.hour_score = (6 * FP) \div 10
        /\ call.hour \notin {21, 22, 23, 0, 1, 2, 18, 19, 20, 3, 4, 5}
              => ret.hour_score = FP \div 10
        /\ (call.hour < 0 \/ call.hour > 23) => ret.reasons[3] = "hour_daytime"

\* C9 witness: a negative hour scored 0.1 with the "daytime" reason.
C9_Witness ==
    /\ call.pc = "done"
    /\ call.hour < 0
    /\ ret.hour_score = FP \div 10
    /\ ret.reasons[3] = "hour_daytime"

\* the calendar day after dt, at the same time of day
NextDay(dt) ==
    IF dt.day < DaysInMonth(dt.year, dt.month) THEN [dt EXCEPT !.day = @ + 1]
    ELSE IF dt.month < 12 THEN [dt EXCEPT !.month = @ + 1, !.day = 1]
    ELSE [dt EXCEPT !.year = @ + 1, !.month = 1, !.day = 1]

\* the standard Julian day of dt's date and hour, times 24: day 1 of the
\* proleptic Gregorian calendar (0001-01-01) begins at JD 1721425.5
StandardJulianDay_x24(dt) == 24 * (toordinal(dt) + 1721424) + 12 + dt.hour

\* C11: for every calendar date of the years drawn and every hour 0..23, the
\* Julian day computed in moon_illumination is the standard one; it is
\* 2451549.5 on 2000-01-06 at hour 0, where days_since_new and the
\* illumination are 0; it is one more on the next calendar day at the same
\* hour, and hour/24 more than at hour 0 of the same day.
C11_JulianDayIsStandard ==
    call.pc = "done" =>
        /\ ret.jd_x24 = StandardJulianDay_x24(call.dt)
        /\ (call.dt.year = 2000 /\ call.dt.month = 1 /\ call.dt.day = 6
            /\ call.dt.hour = 0)
              => /\ ret.jd_x24 = 58837188      \* 2451549.5 * 24
                 /\ ret.days_since_new_x24 = 0
                 /\ ret.value = 0
        /\ julian_day_x24(NextDay(call.dt)) = ret.jd_x24 + 24
        /\ ret.jd_x24 = julian_day_x24([call.dt EXCEPT !.hour = 0]) + call.dt.hour

\* C11 witness: 28 February 2000 at 13h, computed as month 14 of 1999; the
\* next day is 29 February and its Julian day is one more.
C11_Witness ==
    /\ call.pc = "done"
    /\ call.dt.year = 2000 /\ call.dt.month = 2 /\ call.dt.day = 28
    /\ call.dt.hour = 13
    /\ NextDay(call.dt).day = 29
    /\ ret.jd_x24 = StandardJulianDay_x24(call.dt)
    /\ julian_day_x24(NextDay(call.dt)) = ret.jd_x24 + 24

====
